---- MODULE Spec2Model ----
(***************************************************************************)
(* Model of the GitHub dependency-tree extension (src/background.js):      *)
(* the background service worker (listing cache, language filter, batched  *)
(* content fetches, line-oriented import matching) and the content script  *)
(* that starts an analysis and renders the response.                       *)
(*                                                                         *)
(* Paths and import specifiers are TLA+ strings; the JavaScript string     *)
(* methods the code uses (split, join, slice, startsWith, endsWith,        *)
(* replace with the code's regular expressions) are operators over them.   *)
(***************************************************************************)
EXTENDS Integers, Sequences, FiniteSets, TLC

(***************************************************************************)
(* JavaScript string primitives                                            *)
(***************************************************************************)
CharAt(s, i) == SubSeq(s, i, i)

\* s.slice(n): the string without its first n characters
Slice(s, n) == SubSeq(s, n + 1, Len(s))

\* s.startsWith(p)
StartsWith(s, p) == Len(s) >= Len(p) /\ SubSeq(s, 1, Len(p)) = p

\* s.endsWith(p)
EndsWith(s, p) == Len(s) >= Len(p) /\ SubSeq(s, Len(s) - Len(p) + 1, Len(s)) = p

\* s.split(sep) for a one-character separator: always at least one piece
RECURSIVE SplitFrom(_, _, _, _)
SplitFrom(s, sep, i, cur) ==
  IF i > Len(s) THEN <<cur>>
  ELSE IF CharAt(s, i) = sep THEN <<cur>> \o SplitFrom(s, sep, i + 1, "")
  ELSE SplitFrom(s, sep, i + 1, cur \o CharAt(s, i))

Split(s, sep) == SplitFrom(s, sep, 1, "")

\* parts.join(sep)
RECURSIVE Join(_, _)
Join(parts, sep) ==
  IF Len(parts) = 0 THEN ""
  ELSE IF Len(parts) = 1 THEN parts[1]
  ELSE parts[1] \o sep \o Join(Tail(parts), sep)

\* parts.pop() as a value: the last element (split never yields an empty array)
Last(parts) == parts[Len(parts)]

\* parts.slice(0, -1), and the array left behind by parts.pop()
\* (pop on an empty array leaves it empty)
DropLast(parts) == IF Len(parts) = 0 THEN <<>> ELSE SubSeq(parts, 1, Len(parts) - 1)

\* s.replace(/c/g, d) for single characters c, d
RECURSIVE ReplaceAllChar(_, _, _)
ReplaceAllChar(s, c, d) ==
  IF Len(s) = 0 THEN ""
  ELSE (IF CharAt(s, 1) = c THEN d ELSE CharAt(s, 1)) \o ReplaceAllChar(Slice(s, 1), c, d)

\* s.replace(/\.(e1|e2|...)$/, ''): drop one trailing ".ext" for ext in exts
StripExt(s, exts) ==
  LET hit == {e \in exts : EndsWith(s, "." \o e)}
  IN  IF hit = {} THEN s
      ELSE LET e == CHOOSE x \in hit : TRUE
           IN  SubSeq(s, 1, Len(s) - Len(e) - 1)

UpperCase == <<"A","B","C","D","E","F","G","H","I","J","K","L","M",
               "N","O","P","Q","R","S","T","U","V","W","X","Y","Z">>
LowerCase == <<"a","b","c","d","e","f","g","h","i","j","k","l","m",
               "n","o","p","q","r","s","t","u","v","w","x","y","z">>

LowerChar(c) ==
  IF \E k \in 1..26 : UpperCase[k] = c
  THEN LowerCase[CHOOSE k \in 1..26 : UpperCase[k] = c]
  ELSE c

\* s.toLowerCase()
RECURSIVE ToLowerCase(_)
ToLowerCase(s) ==
  IF Len(s) = 0 THEN "" ELSE LowerChar(CharAt(s, 1)) \o ToLowerCase(Slice(s, 1))

(***************************************************************************)
(* Import matching (background.js 170-299)                                 *)
(***************************************************************************)
JsExts == {"js", "jsx", "ts", "tsx"}
AllExts == {"js", "jsx", "ts", "tsx", "py"}

\* resolveImportPath's while loop: one parts.pop() and one slice(3) per
\* leading "../"
RECURSIVE PopParents(_, _)
PopParents(parts, path) ==
  IF StartsWith(path, "../") THEN PopParents(DropLast(parts), Slice(path, 3))
  ELSE [parts |-> parts, path |-> path]

resolveImportPath(importPath, currentDir) ==
  IF StartsWith(importPath, "./") THEN currentDir \o "/" \o Slice(importPath, 2)
  ELSE IF StartsWith(importPath, "../")
       THEN LET r == PopParents(Split(currentDir, "/"), importPath)
            IN  Join(r.parts, "/") \o "/" \o r.path
  ELSE importPath

\* importPath.replace(/^\.\//, '').replace(/\\/g, '/')
NormalizeImportPath(importPath) ==
  ReplaceAllChar(IF StartsWith(importPath, "./") THEN Slice(importPath, 2) ELSE importPath,
                 "\\", "/")

isTargetImport(importPath0, targetFilePath, targetBaseName, currentDir, targetDir) ==
  LET importPath == NormalizeImportPath(importPath0)
      importBaseName == StripExt(Last(Split(importPath, "/")), JsExts)
      resolvedPath == resolveImportPath(importPath, currentDir)
      targetResolved == StripExt(targetFilePath, JsExts)
  IN  \/ importPath = targetFilePath
      \/ importPath = "./" \o targetFilePath
      \/ importPath = "../" \o targetFilePath
      \/ /\ importBaseName = targetBaseName
         /\ (resolvedPath = targetResolved \/ resolvedPath = targetFilePath)

isPythonTargetImport(modulePath, targetFilePath, targetBaseName, currentDir) ==
  LET moduleFilePath == ReplaceAllChar(modulePath, ".", "/")
      targetPyPath == StripExt(targetFilePath, {"py"})
  IN  \/ moduleFilePath = targetPyPath
      \/ EndsWith(moduleFilePath, "/" \o targetBaseName)
      \/ EndsWith(modulePath, "." \o targetBaseName)

DirOf(path) == Join(DropLast(Split(path, "/")), "/")
BaseNameOf(path) == StripExt(Last(Split(path, "/")), AllExts)

(***************************************************************************)
(* File content.  A file's text is a sequence of lines; a line is given by *)
(* its shape and the words in it:                                          *)
(*   "import-from"  import <binding> from '<module>'   (binding a word)    *)
(*   "import-named" import { <binding> } from '<module>'                   *)
(*   "import-bare"  import '<module>'                                      *)
(*   "require"      const <binding> = require('<module>')                  *)
(*   "py-from"      from <module> import <binding>     (binding a word)    *)
(*   "py-import"    import <module>                                        *)
(*   "other"        a line none of the four expressions matches            *)
(* RegexMatches gives, in the order parseImports tries them, the matches   *)
(* its four regular expressions find on a line of each shape.  The Python  *)
(* "import <word>" expression is not anchored, so it also matches the      *)
(* "import <binding>" of a JavaScript default import and the               *)
(* "import <binding>" tail of a Python from-import.                        *)
(***************************************************************************)
Line(kind, binding, module) == [kind |-> kind, binding |-> binding, module |-> module]

RegexMatches(line) ==
  CASE line.kind = "import-from" ->
         << [re |-> "importMatch", symbol |-> line.binding, module |-> line.module],
            [re |-> "pythonImportMatch", symbol |-> line.binding, module |-> line.binding] >>
    [] line.kind = "import-named" ->
         << [re |-> "importMatch", symbol |-> "{" \o line.binding \o "}", module |-> line.module] >>
    [] line.kind = "import-bare" ->
         << [re |-> "importMatch", symbol |-> "default", module |-> line.module] >>
    [] line.kind = "require" ->
         << [re |-> "requireMatch", symbol |-> line.binding, module |-> line.module] >>
    [] line.kind = "py-from" ->
         << [re |-> "pythonFromMatch", symbol |-> line.binding, module |-> line.module],
            [re |-> "pythonImportMatch", symbol |-> line.binding, module |-> line.binding] >>
    [] line.kind = "py-import" ->
         << [re |-> "pythonImportMatch", symbol |-> line.module, module |-> line.module] >>
    [] OTHER -> << >>

\* the type field parseImports gives the record pushed for each expression
ImportType(re) ==
  CASE re = "importMatch" -> "import"
    [] re = "requireMatch" -> "require"
    [] re = "pythonFromMatch" -> "from-import"
    [] OTHER -> "import"

\* the test parseImports applies to one regular-expression match
MatchRefersToTarget(m, targetFilePath, targetBaseName, currentDir, targetDir) ==
  IF m.re \in {"importMatch", "requireMatch"}
  THEN isTargetImport(m.module, targetFilePath, targetBaseName, currentDir, targetDir)
  ELSE isPythonTargetImport(m.module, targetFilePath, targetBaseName, currentDir)

RECURSIVE KeepTargetMatches(_, _, _, _, _, _)
KeepTargetMatches(ms, lineNumber, targetFilePath, targetBaseName, currentDir, targetDir) ==
  IF Len(ms) = 0 THEN << >>
  ELSE (IF MatchRefersToTarget(ms[1], targetFilePath, targetBaseName, currentDir, targetDir)
        THEN << [type |-> ImportType(ms[1].re), symbol |-> ms[1].symbol,
                 module |-> ms[1].module, line |-> lineNumber] >>
        ELSE << >>)
       \o KeepTargetMatches(Tail(ms), lineNumber, targetFilePath, targetBaseName,
                            currentDir, targetDir)

RECURSIVE ParseLines(_, _, _, _, _, _)
ParseLines(lines, index, targetFilePath, targetBaseName, currentDir, targetDir) ==
  IF index > Len(lines) THEN << >>
  ELSE KeepTargetMatches(RegexMatches(lines[index]), index, targetFilePath,
                         targetBaseName, currentDir, targetDir)
       \o ParseLines(lines, index + 1, targetFilePath, targetBaseName, currentDir, targetDir)

parseImports(content, targetFilePath, targetBaseName, currentFilePath) ==
  ParseLines(content, 1, targetFilePath, targetBaseName,
             DirOf(currentFilePath), DirOf(targetFilePath))

(***************************************************************************)
(* Language filter (background.js 86-101)                                  *)
(***************************************************************************)
Extensions(language) ==
  CASE language = "javascript" -> {".js", ".jsx", ".mjs"}
    [] language = "typescript" -> {".ts", ".tsx"}
    [] language = "python" -> {".py"}
    [] language = "jsx" -> {".jsx", ".js"}
    [] language = "tsx" -> {".tsx", ".ts"}
    [] OTHER -> {".js", ".jsx", ".mjs"}

IsRelevantFile(file, language) ==
  ToLowerCase("." \o Last(Split(file, "."))) \in Extensions(language)

filterFilesByLanguage(files, language) ==
  SelectSeq(files, LAMBDA file : IsRelevantFile(file, language))

\* a gate that lets every tag through for which the language filter finds files
supportedLanguagesAndFallbacks ==
  {"javascript", "typescript", "python", "jsx", "tsx", "mjs", "java"}

supportedLanguages == {"javascript", "typescript", "python", "jsx", "tsx"}

(***************************************************************************)
(* Content-script helpers (background.js 307-363)                          *)
(***************************************************************************)
\* getFileLanguage's fallback table; an extension outside it is returned as is
langMap(ext) ==
  CASE ext \in {"js", "jsx"} -> "javascript"
    [] ext \in {"ts", "tsx"} -> "typescript"
    [] ext = "py" -> "python"
    [] ext = "java" -> "java"
    [] ext = "go" -> "go"
    [] ext = "rb" -> "ruby"
    [] ext = "php" -> "php"
    [] ext = "cs" -> "csharp"
    [] OTHER -> ext

\* codeLanguage is the page's data-code-language attribute, "" when the page
\* has no such element
getFileLanguage(codeLanguage, filePath) ==
  IF codeLanguage # "" THEN codeLanguage
  ELSE langMap(ToLowerCase(Last(Split(filePath, "."))))

(***************************************************************************)
(* Bounds and program constants                                            *)
(***************************************************************************)
BATCH_SIZE == 10
CACHE_DURATION == 5 * 60 * 1000
\* the clock advances in steps of half the cache window, so that a cached
\* listing is seen at ages 0, below, exactly at and above CACHE_DURATION
TickMs == CACHE_DURATION \div 2
MaxTicks == 2
MaxClicks == 2

(***************************************************************************)
(* Repositories.  A world is one repository as the remote host serves it   *)
(* (the git tree and every blob's text) and the file page the content      *)
(* script runs on.                                                         *)
(***************************************************************************)
Blob(path) == [path |-> path, type |-> "blob"]
Dir(path) == [path |-> path, type |-> "tree"]

\* the branches of the repository.  The remote host serves the same blobs on
\* both; the listing of dev has one more file, which no language filter keeps
Branches == {"main", "dev"}

TreeOf(tree, b) == IF b = "main" THEN tree ELSE << Blob("CHANGELOG.md") >> \o tree

RepoInfo(filePath) == [owner |-> "octo", repo |-> "demo", branch |-> "main", filePath |-> filePath]

World(tree, content, filePath, codeLanguage) ==
  [tree |-> tree, content |-> content, repoInfo |-> RepoInfo(filePath),
   codeLanguage |-> codeLanguage]

\* three files at the repository root, each either importing nothing or one
\* of the three (itself included), and each of them as the page's file
FamilyChoices ==
  { << >>,
    << Line("import-from", "x", "./a") >>,
    << Line("other", "", ""), Line("require", "y", "./b") >>,
    << Line("import-named", "z", "./c") >> }

FamilyWorld(ca, cb, cc, t) ==
  World(<< Dir("docs"), Blob("README.md"), Blob("a.js"), Blob("b.js"), Blob("c.js") >>,
        [p \in {"README.md", "a.js", "b.js", "c.js"} |->
           CASE p = "a.js" -> ca [] p = "b.js" -> cb [] p = "c.js" -> cc [] OTHER -> << >>],
        t, "")

FamilyWorlds ==
  { FamilyWorld(ca, cb, cc, t)
    : ca \in FamilyChoices, cb \in FamilyChoices, cc \in FamilyChoices,
      t \in {"a.js", "b.js", "c.js"} }

\* the import cycle: b.js imports a.js, c.js imports b.js, a.js imports c.js
CycleWorld ==
  FamilyWorld(<< Line("import-named", "z", "./c") >>,
              << Line("import-from", "x", "./a") >>,
              << Line("other", "", ""), Line("require", "y", "./b") >>,
              "a.js")

\* the end-to-end scenario: both other files of src/ import ./a
EndToEndWorld ==
  World(<< Dir("src"), Blob("src/a.js"), Blob("src/b.js"), Blob("src/c.js") >>,
        [p \in {"src/a.js", "src/b.js", "src/c.js"} |->
           CASE p = "src/b.js" -> << Line("import-from", "x", "./a") >>
             [] p = "src/c.js" -> << Line("import-from", "y", "./a") >>
             [] OTHER -> << Line("other", "", "") >>],
        "src/a.js", "")

\* files two directories deep that import a sibling and a parent's file
NestedWorlds ==
  { World(<< Dir("a"), Dir("a/b"), Blob("a/sibling.ts"), Blob("a/b/sibling.ts"),
             Blob("a/b/near.ts"), Blob("a/b/user.ts") >>,
          [p \in {"a/sibling.ts", "a/b/sibling.ts", "a/b/near.ts", "a/b/user.ts"} |->
             CASE p = "a/b/near.ts" -> << Line("import-from", "s", "./sibling") >>
               [] p = "a/b/user.ts" -> << Line("import-from", "s", "../sibling") >>
               [] OTHER -> << Line("other", "", "") >>],
          t, "typescript")
    : t \in {"a/sibling.ts", "a/b/sibling.ts"} }

PythonWorld ==
  World(<< Dir("pkg"), Blob("pkg/mod.py"), Blob("pkg/use.py"), Blob("app.py"),
           Blob("other/mod.py"), Blob("tool.js") >>,
        [p \in {"pkg/mod.py", "pkg/use.py", "app.py", "other/mod.py", "tool.js"} |->
           CASE p = "pkg/use.py" -> << Line("py-from", "f", "pkg.mod") >>
             [] p = "app.py" -> << Line("py-import", "", "other.mod") >>
             [] OTHER -> << Line("other", "", "") >>],
        "pkg/mod.py", "")

\* a page whose language the content script does not support
JavaWorld ==
  World(<< Blob("Main.java"), Blob("a.js") >>,
        [p \in {"Main.java", "a.js"} |-> << Line("other", "", "") >>],
        "Main.java", "")

\* a page whose extension the fallback table does not know, although the
\* language filter counts it as javascript
MjsWorld ==
  World(<< Blob("tool.mjs"), Blob("a.js") >>,
        [p \in {"tool.mjs", "a.js"} |->
           IF p = "a.js" THEN << Line("import-from", "t", "./tool.mjs") >>
           ELSE << Line("other", "", "") >>],
        "tool.mjs", "")

\* the page's file is the only file of its language
LoneWorld ==
  World(<< Blob("README.md"), Blob("only.js"), Blob("setup.py") >>,
        [p \in {"README.md", "only.js", "setup.py"} |->
           IF p = "only.js" THEN << Line("import-from", "me", "./only") >>
           ELSE << Line("import-from", "o", "./only") >>],
        "only.js", "")

\* src/util.js imports the page's file; z.js imports src/util.js, writing
\* its path in another letter case
CaseWorld ==
  World(<< Dir("src"), Blob("src/util.js"), Blob("t.js"), Blob("z.js") >>,
        [p \in {"src/util.js", "t.js", "z.js"} |->
           CASE p = "src/util.js" -> << Line("import-from", "x", "t.js") >>
             [] p = "z.js" -> << Line("import-from", "u", "Src/Util.JS") >>
             [] OTHER -> << Line("other", "", "") >>],
        "t.js", "")

\* twelve candidate files, the page's file last: two batches, the first of
\* ten content fetches
BigFiles == << "f01.js", "f02.js", "f03.js", "f04.js", "f05.js", "f06.js", "f07.js",
               "f08.js", "f09.js", "f10.js", "f11.js", "lib.js" >>

BigWorld ==
  World([k \in 1..Len(BigFiles) |-> Blob(BigFiles[k])],
        [p \in {BigFiles[k] : k \in 1..Len(BigFiles)} |->
           CASE p = "f02.js" -> << Line("import-from", "lib", "./lib") >>
             [] p = "f07.js" -> << Line("require", "lib", "./lib.js") >>
             [] p = "f11.js" -> << Line("import-bare", "", "./lib") >>
             [] OTHER -> << Line("other", "", "") >>],
        "lib.js", "javascript")

Worlds ==
  FamilyWorlds \cup NestedWorlds
    \cup {EndToEndWorld, PythonWorld, JavaWorld, MjsWorld, LoneWorld, CaseWorld}

(***************************************************************************)
(* State                                                                   *)
(***************************************************************************)
VARIABLES
  world,         \* the repository served by the remote host and the page shown
  branch,        \* content script: the branch in the page's URL
  alerted,       \* content script: the text of the last alert shown, "" when none
  now,           \* Date.now(), in milliseconds
  repoCache,     \* background: cacheKey -> [files, timestamp]
  isAnalyzing,   \* content script: the in-flight flag
  overlay,       \* content script: the overlay element, [kind |-> "none"] when absent
  clicks,        \* clicks that started an analysis so far
  request,       \* the runtime message on its way to the background listener
  response,      \* the sendResponse argument on its way to the content callback
  pc,            \* background: "idle", "listing" (tree fetch in flight) or
                 \* "fetching" (a batch of content fetches in flight)
  an,            \* background: the locals of the running analysis
  pending,       \* positions (in an.files) of the content fetches in flight
  batchResults,  \* position -> result of analyzeFileForImports, current batch
  issued,        \* history: positions whose content fetch was issued, this analysis
  fetchedOk,     \* history: positions whose content fetch returned text
  failedPos,     \* history: positions whose content fetch failed
  responses,     \* history: sendResponse calls for the current request
  listingOutcome,\* history: how getRepositoryFiles ended for the current request
  resolutions    \* history: [dir, specifier, resolved] of each resolveImportPath call

vars == << world, branch, alerted, now, repoCache, isAnalyzing, overlay, clicks, request, response,
           pc, an, pending, batchResults, issued, fetchedOk, failedPos, responses,
           listingOutcome, resolutions >>

NoMsg == [kind |-> "none"]
\* a callback argument that is undefined
Undefined == [kind |-> "undefined"]
NoOverlay == [kind |-> "none"]
Null == [null |-> TRUE]
NoAnalysis == [repoInfo |-> RepoInfo(""), language |-> "", files |-> << >>, i |-> 0,
               dependencies |-> << >>]

ListingErrorMessage ==
  "Failed to fetch repository structure. You may need to authenticate for private repos."

cacheKey(repoInfo) == repoInfo.owner \o "/" \o repoInfo.repo \o "/" \o repoInfo.branch

\* data.tree.filter(item => item.type === 'blob').map(item => item.path)
RECURSIVE BlobPaths(_)
BlobPaths(tree) ==
  IF Len(tree) = 0 THEN << >>
  ELSE (IF tree[1].type = "blob" THEN << tree[1].path >> ELSE << >>) \o BlobPaths(Tail(tree))

Min(a, b) == IF a < b THEN a ELSE b

(***************************************************************************)
(* analyzeFileForImports and fetchFileContent (background.js 129-168)      *)
(***************************************************************************)
\* a fetch that hands back the body whatever the response status
fetchFileContentUnchecked(outcome, text) == text

\* what fetchFileContent returns: the text on an OK response, null (here the
\* empty text, which the caller's !content treats alike) on a non-OK
\* response or a thrown error
fetchFileContent(outcome, text) == IF outcome = "ok" THEN text ELSE << >>

\* the part of analyzeFileForImports after the fetch has settled
analyzeFileForImports(filePath, targetFilePath, targetBaseName, content) ==
  IF Len(content) = 0 THEN Null
  ELSE LET imports == parseImports(content, targetFilePath, targetBaseName, filePath)
       IN  IF Len(imports) > 0 THEN [file |-> filePath, imports |-> imports] ELSE Null

(***************************************************************************)
(* findDependencies (background.js 104-126)                                *)
(***************************************************************************)
\* a loop that steps by half a batch, so that batches overlap
NextIndexOverlapping(i) == i + BATCH_SIZE \div 2

\* the loop's step, i += BATCH_SIZE
NextIndex(i) == i + BATCH_SIZE

\* every remaining file in one batch
BatchPositionsUnsliced(files, i) == (i + 1) .. Len(files)

\* files.slice(i, i + BATCH_SIZE), as positions 1..Len(files)
BatchPositions(files, i) == (i + 1) .. Min(i + BATCH_SIZE, Len(files))

\* an analyzeFileForImports without its test for the target: every file of
\* the batch is fetched
FetchPositionsAll(files, i, targetFilePath) == BatchPositions(files, i)

\* the files of a batch for which analyzeFileForImports reaches its fetch
FetchPositions(files, i, targetFilePath) ==
  {p \in BatchPositions(files, i) : files[p] # targetFilePath}

\* a forEach that pushes every result of the batch, null or not
RECURSIVE PushResultsUnfiltered(_, _, _, _)
PushResultsUnfiltered(dependencies, results, p, last) ==
  IF p > last THEN dependencies
  ELSE PushResultsUnfiltered(
         IF p \in DOMAIN results THEN Append(dependencies, results[p]) ELSE dependencies,
         results, p + 1, last)

\* batchResults.forEach(result => { if (result && result.imports.length > 0) push })
RECURSIVE PushResults(_, _, _, _)
PushResults(dependencies, results, p, last) ==
  IF p > last THEN dependencies
  ELSE PushResults(
         IF p \in DOMAIN results /\ results[p] # Null /\ Len(results[p].imports) > 0
         THEN Append(dependencies, results[p]) ELSE dependencies,
         results, p + 1, last)

\* a loop that, past its last batch, waits on instead of returning
RunLoopNeverReturns(files, i, dependencies, targetFilePath) ==
  [done |-> FALSE, i |-> i,
   pending |-> {p \in (i + 1) .. Min(i + BATCH_SIZE, Len(files)) : files[p] # targetFilePath},
   dependencies |-> dependencies]

\* the for loop from index i on, up to its next suspension: a batch with no
\* fetch to wait for (only the target in it) resolves without suspending
RECURSIVE RunLoop(_, _, _, _)
RunLoop(files, i, dependencies, targetFilePath) ==
  IF i >= Len(files) THEN [done |-> TRUE, i |-> i, pending |-> {}, dependencies |-> dependencies]
  ELSE IF FetchPositions(files, i, targetFilePath) = {}
       THEN RunLoop(files, NextIndex(i), dependencies, targetFilePath)
       ELSE [done |-> FALSE, i |-> i, pending |-> FetchPositions(files, i, targetFilePath),
             dependencies |-> dependencies]

ResultObject(repoInfo, dependencies, filesAnalyzed) ==
  [kind |-> "response", repoInfo |-> repoInfo, dependencies |-> dependencies,
   filesAnalyzed |-> filesAnalyzed]

\* an error answer that also carries an empty result
ErrorObjectWithResult(message) ==
  [kind |-> "response", error |-> message, dependencies |-> << >>, filesAnalyzed |-> 0]

ErrorObject(message) == [kind |-> "response", error |-> message]

\* handleAnalyzeDependencies from the point where the listing is known, and
\* findDependencies from loop index i: either the next batch is issued or the
\* result object is handed to sendResponse
Continue(repoInfo, language, relevantFiles, i, dependencies) ==
  LET r == RunLoop(relevantFiles, i, dependencies, repoInfo.filePath)
  IN  /\ an' = [repoInfo |-> repoInfo, language |-> language, files |-> relevantFiles,
                i |-> r.i, dependencies |-> r.dependencies]
      /\ pending' = r.pending
      /\ issued' = issued \cup r.pending
      /\ batchResults' = << >>
      /\ IF r.done
         THEN /\ pc' = "idle"
              /\ response' = ResultObject(repoInfo, r.dependencies, Len(relevantFiles))
              /\ responses' = responses + 1
         ELSE /\ pc' = "fetching"
              /\ UNCHANGED << response, responses >>

\* the resolveImportPath calls isTargetImport makes while parsing one file:
\* for each import/require specifier that is not literally the target path
\* and whose base name is the target's, the specifier as written, the
\* importing file's directory and the path the call returned
ResolveCalls(content, filePath, targetFilePath) ==
  LET ms == UNION { {RegexMatches(content[k])[j] : j \in 1..Len(RegexMatches(content[k]))}
                    : k \in 1..Len(content) }
      norm(m) == NormalizeImportPath(m.module)
  IN  { [dir |-> DirOf(filePath), specifier |-> m.module,
         resolved |-> resolveImportPath(norm(m), DirOf(filePath))]
        : m \in { x \in ms :
                    /\ x.re \in {"importMatch", "requireMatch"}
                    /\ norm(x) \notin {targetFilePath, "./" \o targetFilePath,
                                       "../" \o targetFilePath}
                    /\ StripExt(Last(Split(norm(x), "/")), JsExts)
                         = BaseNameOf(targetFilePath) } }

(***************************************************************************)
(* updateOverlay (background.js 393-476)                                   *)
(***************************************************************************)
\* dep.depth || 0
DepthOf(dep) == IF "depth" \in DOMAIN dep /\ dep.depth # 0 THEN dep.depth ELSE 0

\* the dep-item elements in rendering order: depth groups in ascending order
\* of depth, each group in the order of data.dependencies
RECURSIVE RenderLevels(_, _)
RenderLevels(dependencies, levels) ==
  IF levels = {} THEN << >>
  ELSE LET d == CHOOSE x \in levels : \A y \in levels : x <= y
       IN  SelectSeq(dependencies, LAMBDA dep : DepthOf(dep) = d)
           \o RenderLevels(dependencies, levels \ {d})

updateOverlay(data) ==
  IF "error" \in DOMAIN data THEN [kind |-> "error", message |-> data.error]
  ELSE IF Len(data.dependencies) = 0
       THEN [kind |-> "empty", filesAnalyzed |-> data.filesAnalyzed]
       ELSE [kind |-> "list", filesAnalyzed |-> data.filesAnalyzed,
             items |-> RenderLevels(data.dependencies,
                         {DepthOf(data.dependencies[k]) : k \in 1..Len(data.dependencies)})]

(***************************************************************************)
(* Initial state: a freshly started worker and a freshly loaded page       *)
(***************************************************************************)
InitRest ==
  /\ branch = "main"
  /\ alerted = ""
  /\ now = 0
  /\ repoCache = << >>
  /\ isAnalyzing = FALSE
  /\ overlay = NoOverlay
  /\ clicks = 0
  /\ request = NoMsg
  /\ response = NoMsg
  /\ pc = "idle"
  /\ an = NoAnalysis
  /\ pending = {}
  /\ batchResults = << >>
  /\ issued = {}
  /\ fetchedOk = {}
  /\ failedPos = {}
  /\ responses = 0
  /\ listingOutcome = "none"
  /\ resolutions = {}

Init == world \in Worlds /\ InitRest

PageLanguage == getFileLanguage(world.codeLanguage, world.repoInfo.filePath)

\* getRepoInfo: owner, repo, branch and file path read from the page's URL
getRepoInfo == [world.repoInfo EXCEPT !.branch = branch]

\* the alert analyzeDependencies shows for a language it does not support
UnsupportedAlert(language) ==
  "Language \"" \o language
    \o "\" is not yet supported. Currently supporting: JavaScript, TypeScript, Python"

(***************************************************************************)
(* Content script (background.js 365-390, 535-566)                         *)
(***************************************************************************)
\* analyzeDependencies without its first line, if (isAnalyzing) return
ClickWithoutGate ==
  /\ PageLanguage \in supportedLanguages
  /\ clicks < MaxClicks
  /\ isAnalyzing' = TRUE
  /\ overlay' = [kind |-> "loading"]
  /\ request' = [kind |-> "analyzeDependencies", repoInfo |-> getRepoInfo,
                 language |-> PageLanguage]
  /\ clicks' = clicks + 1
  /\ UNCHANGED << world, branch, alerted, now, repoCache, response, pc, an, pending,
                  batchResults, responses, listingOutcome, issued, fetchedOk, failedPos,
                  resolutions >>

\* analyzeDependencies, a click that starts an analysis
Click ==
  /\ ~isAnalyzing
  /\ PageLanguage \in supportedLanguages
  /\ clicks < MaxClicks
  /\ isAnalyzing' = TRUE
  /\ overlay' = [kind |-> "loading"]
  /\ request' = [kind |-> "analyzeDependencies", repoInfo |-> getRepoInfo,
                 language |-> PageLanguage]
  /\ clicks' = clicks + 1
  /\ responses' = 0
  /\ listingOutcome' = "none"
  /\ issued' = {}
  /\ fetchedOk' = {}
  /\ failedPos' = {}
  /\ resolutions' = {}
  /\ UNCHANGED << world, branch, alerted, now, repoCache, response, pc, an, pending, batchResults >>

\* analyzeDependencies while isAnalyzing: returns at once
ClickWhileAnalyzing ==
  /\ isAnalyzing
  /\ UNCHANGED vars

\* analyzeDependencies on a page of an unsupported language: alert and return
ClickUnsupported ==
  /\ ~isAnalyzing
  /\ PageLanguage \notin supportedLanguages
  /\ alerted' = UnsupportedAlert(PageLanguage)
  /\ UNCHANGED << world, branch, now, repoCache, isAnalyzing, overlay, clicks, request,
                  response, pc, an, pending, batchResults, issued, fetchedOk, failedPos,
                  responses, listingOutcome, resolutions >>

\* GitHub's soft navigation to the same file on the other branch: the content
\* script's variables stay, the URL getRepoInfo reads changes
Navigate ==
  /\ \E b \in Branches \ {branch} : branch' = b
  /\ UNCHANGED << world, alerted, now, repoCache, isAnalyzing, overlay, clicks, request,
                  response, pc, an, pending, batchResults, issued, fetchedOk, failedPos,
                  responses, listingOutcome, resolutions >>

\* the overlay's close button
CloseOverlay ==
  /\ overlay # NoOverlay
  /\ overlay' = NoOverlay
  /\ UNCHANGED << world, branch, alerted, now, repoCache, isAnalyzing, clicks, request, response, pc, an,
                  pending, batchResults, issued, fetchedOk, failedPos, responses,
                  listingOutcome, resolutions >>

\* the sendMessage callback: if (response) updateOverlay(response)
Callback ==
  /\ response # NoMsg
  /\ isAnalyzing' = FALSE
  /\ overlay' = IF overlay = NoOverlay \/ response = Undefined THEN overlay
                ELSE updateOverlay(response)
  /\ response' = NoMsg
  /\ UNCHANGED << world, branch, alerted, now, repoCache, clicks, request, pc, an, pending, batchResults,
                  issued, fetchedOk, failedPos, responses, listingOutcome, resolutions >>

(***************************************************************************)
(* Background worker (background.js 9-126)                                 *)
(***************************************************************************)
\* the tree request's blob paths for every repository, and the language
\* filter for every such listing and language tag, tabulated once
ListingTable ==
  [w \in Worlds \cup {BigWorld} |-> [b \in Branches |-> BlobPaths(TreeOf(w.tree, b))]]

RelevantTable ==
  [files \in {ListingTable[w][b] : w \in Worlds \cup {BigWorld}, b \in Branches} |->
    [language \in supportedLanguages |-> filterFilesByLanguage(files, language)]]

ListingFailures == {"notok", "throw", "badbody"}

\* a freshness test that still accepts an entry aged exactly CACHE_DURATION
CacheFreshInclusive(key) ==
  key \in DOMAIN repoCache /\ now - repoCache[key].timestamp <= CACHE_DURATION

CacheFresh(key) ==
  key \in DOMAIN repoCache /\ now - repoCache[key].timestamp < CACHE_DURATION

\* the listener, getRepositoryFiles answering from the cache
OnMessageCacheHit ==
  /\ request.kind = "analyzeDependencies"
  /\ pc = "idle"
  /\ CacheFresh(cacheKey(request.repoInfo))
  /\ request' = NoMsg
  /\ Continue(request.repoInfo, request.language,
              RelevantTable[repoCache[cacheKey(request.repoInfo)].files][request.language],
              0, << >>)
  /\ listingOutcome' = "cached"
  /\ UNCHANGED << world, branch, alerted, now, repoCache, isAnalyzing, overlay, clicks, fetchedOk,
                  failedPos, resolutions >>

\* the listener, getRepositoryFiles issuing the tree request
OnMessageCacheMiss ==
  /\ request.kind = "analyzeDependencies"
  /\ pc = "idle"
  /\ ~CacheFresh(cacheKey(request.repoInfo))
  /\ request' = NoMsg
  /\ pc' = "listing"
  /\ an' = [NoAnalysis EXCEPT !.repoInfo = request.repoInfo, !.language = request.language]
  /\ UNCHANGED << world, branch, alerted, now, repoCache, isAnalyzing, overlay, clicks, response, pending,
                  batchResults, issued, fetchedOk, failedPos, responses, listingOutcome,
                  resolutions >>

\* the tree request answers OK: store the listing, filter it, start the loop
ListingOk ==
  /\ pc = "listing"
  /\ LET files == ListingTable[world][an.repoInfo.branch]
     IN  /\ repoCache' = [k \in DOMAIN repoCache \cup {cacheKey(an.repoInfo)} |->
                            IF k = cacheKey(an.repoInfo)
                            THEN [files |-> files, timestamp |-> now]
                            ELSE repoCache[k]]
         /\ Continue(an.repoInfo, an.language, RelevantTable[files][an.language], 0, << >>)
  /\ listingOutcome' = "ok"
  /\ UNCHANGED << world, branch, alerted, now, isAnalyzing, overlay, clicks, request, fetchedOk, failedPos,
                  resolutions >>

\* the tree request answers non-OK, throws, or answers OK with a body that
\* is no JSON tree: each lands in getRepositoryFiles' catch, which throws
\* its own error; handleAnalyzeDependencies rethrows it and the listener's
\* catch answers with the message
ListingFail ==
  /\ pc = "listing"
  /\ \E outcome \in ListingFailures :
       /\ pc' = "idle"
       /\ response' = ErrorObject(ListingErrorMessage)
       /\ responses' = responses + 1
       /\ listingOutcome' = outcome
  /\ UNCHANGED << world, branch, alerted, now, repoCache, isAnalyzing, overlay, clicks, request, an, pending,
                  batchResults, issued, fetchedOk, failedPos, resolutions >>

\* the ways a content fetch settles: an OK response, a non-OK response, a
\* thrown error
Outcomes == {"ok", "notok", "throw"}

\* analyzeFileForImports for every repository, target, file and fetch
\* outcome, tabulated once: result is what the call returns, calls are the
\* resolveImportPath calls made on the way
AnalysisTable ==
  [w \in Worlds \cup {BigWorld} |->
    [t \in DOMAIN w.content |->
      [f \in DOMAIN w.content |->
        [o \in Outcomes |->
          [result |-> analyzeFileForImports(f, t, BaseNameOf(t),
                                            fetchFileContent(o, w.content[f])),
           calls |-> ResolveCalls(fetchFileContent(o, w.content[f]), f, t)]]]]]

\* the content fetch of the file at position p settles with the outcome
Analyzed(p, outcome) == AnalysisTable[world][an.repoInfo.filePath][an.files[p]][outcome]

\* what that settling leaves in the history variables
Recorded(p, outcome) ==
  /\ fetchedOk' = IF outcome = "ok" THEN fetchedOk \cup {p} ELSE fetchedOk
  /\ failedPos' = IF outcome = "ok" THEN failedPos ELSE failedPos \cup {p}
  /\ resolutions' = resolutions \cup Analyzed(p, outcome).calls

\* a settling fetch that pushes its own record to the shared result at once
FetchSettleMorePushesAtOnce ==
  /\ pc = "fetching"
  /\ \E p \in pending, outcome \in Outcomes :
       /\ pending \ {p} # {}
       /\ pending' = pending \ {p}
       /\ an' = [an EXCEPT !.dependencies =
                   IF Analyzed(p, outcome).result # Null
                   THEN Append(@, Analyzed(p, outcome).result) ELSE @]
       /\ Recorded(p, outcome)
  /\ UNCHANGED << world, branch, alerted, now, repoCache, isAnalyzing, overlay, clicks,
                  request, response, pc, batchResults, issued, responses, listingOutcome >>

\* one content fetch settles while others of its batch are in flight
FetchSettleMore ==
  /\ pc = "fetching"
  /\ \E p \in pending, outcome \in Outcomes :
       /\ pending \ {p} # {}
       /\ pending' = pending \ {p}
       /\ batchResults' = [q \in DOMAIN batchResults \cup {p} |->
                             IF q = p THEN Analyzed(p, outcome).result
                             ELSE batchResults[q]]
       /\ Recorded(p, outcome)
  /\ UNCHANGED << world, branch, alerted, now, repoCache, isAnalyzing, overlay, clicks, request, response,
                  pc, an, issued, responses, listingOutcome >>

\* the last content fetch of the batch settles: Promise.all resolves, the
\* batch's results are pushed in file order and the loop goes on
FetchSettleLast ==
  /\ pc = "fetching"
  /\ \E p \in pending, outcome \in Outcomes :
       /\ pending = {p}
       /\ Continue(an.repoInfo, an.language, an.files, NextIndex(an.i),
                   PushResults(an.dependencies,
                               [q \in DOMAIN batchResults \cup {p} |->
                                  IF q = p THEN Analyzed(p, outcome).result
                                  ELSE batchResults[q]],
                               an.i + 1, Min(an.i + BATCH_SIZE, Len(an.files))))
       /\ Recorded(p, outcome)
  /\ UNCHANGED << world, branch, alerted, now, repoCache, isAnalyzing, overlay, clicks, request,
                  listingOutcome >>

\* time passes.  The clock is read only by getRepositoryFiles, so steps of
\* the clock during the content fetches or while a response is on its way
\* are folded into the steps after them.
Tick ==
  /\ pc # "fetching"
  /\ response = NoMsg
  /\ now + TickMs <= MaxTicks * TickMs
  /\ now' = now + TickMs
  /\ UNCHANGED << world, branch, alerted, repoCache, isAnalyzing, overlay, clicks, request, response, pc, an,
                  pending, batchResults, issued, fetchedOk, failedPos, responses,
                  listingOutcome, resolutions >>

Next ==
  \/ Click
  \/ ClickWhileAnalyzing
  \/ ClickUnsupported
  \/ CloseOverlay
  \/ Callback
  \/ OnMessageCacheHit
  \/ OnMessageCacheMiss
  \/ ListingOk
  \/ ListingFail
  \/ FetchSettleMore
  \/ FetchSettleLast
  \/ Tick

Spec == Init /\ [][Next]_vars

\* every issued fetch settles, every message is delivered: the worker's
\* event loop runs each settled promise's continuation and each callback
Fairness ==
  /\ WF_vars(OnMessageCacheHit \/ OnMessageCacheMiss)
  /\ WF_vars(ListingOk \/ ListingFail)
  /\ WF_vars(FetchSettleMore \/ FetchSettleLast)
  /\ WF_vars(Callback)

SpecLive == Spec /\ Fairness

\* one analysis of the twelve-file repository
InitBatch == world = BigWorld /\ InitRest

NextBatch ==
  \/ Click /\ clicks = 0
  \/ ClickWhileAnalyzing
  \/ Callback
  \/ OnMessageCacheMiss
  \/ ListingOk
  \/ ListingFail
  \/ FetchSettleMore
  \/ FetchSettleLast

SpecBatch == InitBatch /\ [][NextBatch]_vars

\* the content script and the worker on a few pages, every message
\* delivered and every fetch settling
InitPage ==
  world \in {CycleWorld, EndToEndWorld, PythonWorld, MjsWorld, LoneWorld} /\ InitRest

SpecPage == InitPage /\ [][Next]_vars /\ Fairness

\* analyses started from the pages of both branches, the clock running
InitCache == world \in {EndToEndWorld, PythonWorld} /\ InitRest

NextCache ==
  \/ Click
  \/ Navigate
  \/ Callback
  \/ OnMessageCacheHit
  \/ OnMessageCacheMiss
  \/ ListingOk
  \/ ListingFail
  \/ FetchSettleMore
  \/ FetchSettleLast
  \/ Tick

SpecCache == InitCache /\ [][NextCache]_vars

(***************************************************************************)
(* Vocabulary of the properties                                            *)
(***************************************************************************)
IsResult(r) == r # NoMsg /\ "dependencies" \in DOMAIN r
IsError(r) == r # NoMsg /\ "error" \in DOMAIN r

\* the files of a sequence of dependent records
RecordFiles(dependencies) == [k \in 1..Len(dependencies) |-> dependencies[k].file]

Target == an.repoInfo.filePath
Candidates == {an.files[p] : p \in 1..Len(an.files)}

\* file f has a line that, by the code's own matching rule, imports file g
ImportsFile(f, g) == Len(parseImports(world.content[f], g, BaseNameOf(g), f)) > 0

\* the candidates other than the target from which a chain of one or more
\* imports among candidates leads to the target
RECURSIVE DependentsFrom(_)
DependentsFrom(S) ==
  LET more == {f \in Candidates \ {Target} :
                 \E g \in S \cup {Target} : ImportsFile(f, g)}
  IN  IF more \subseteq S THEN S ELSE DependentsFrom(S \cup more)

TransitiveDependents == DependentsFrom({})

\* a record as the data model describes it: a chain from the target to the
\* file, linked by imports, and depth = Len(chain) - 1
HasChainAndDepth(dep) ==
  /\ "chain" \in DOMAIN dep
  /\ "depth" \in DOMAIN dep
  /\ Len(dep.chain) >= 2
  /\ dep.chain[1] = Target
  /\ dep.chain[Len(dep.chain)] = dep.file
  /\ \A k \in 1..(Len(dep.chain) - 1) : ImportsFile(dep.chain[k + 1], dep.chain[k])
  /\ dep.depth = Len(dep.chain) - 1

\* a result has been handed to sendResponse and no content fetch failed
CleanResult == IsResult(response) /\ failedPos = {}

(***************************************************************************)
(* C1: every candidate that imports the target through a chain of one or   *)
(* more imports among candidates is in the result (the chain each record   *)
(* is to carry is C6's subject).  The code reports the files that import   *)
(* the target directly and goes no further: violated.                      *)
(***************************************************************************)
C1_TransitiveDependentsReported ==
  CleanResult =>
    \A f \in TransitiveDependents :
      \E k \in 1..Len(response.dependencies) : response.dependencies[k].file = f

(***************************************************************************)
(* C2: in the end-to-end scenario the result is exactly the two records    *)
(* for src/b.js and src/c.js, each at depth 1 with chain [src/a.js, file], *)
(* and filesAnalyzed = 3.  The code returns no record: violated.           *)
(***************************************************************************)
C2_EndToEndTwoDependents ==
  (world = EndToEndWorld /\ CleanResult) =>
    /\ response.filesAnalyzed = 3
    /\ RecordFiles(response.dependencies) = << "src/b.js", "src/c.js" >>
    /\ \A k \in 1..Len(response.dependencies) :
         /\ HasChainAndDepth(response.dependencies[k])
         /\ response.dependencies[k].depth = 1

(***************************************************************************)
(* C3: the analysis terminates on every import graph, cycles included:     *)
(* once the listing is there (fetched or cached) and each content fetch    *)
(* settles, the loop runs out of batches and the result object is handed   *)
(* to sendResponse.                                                        *)
(***************************************************************************)
C3_AnalysisTerminates ==
  (isAnalyzing /\ listingOutcome \in {"ok", "cached"})
    ~> (pc = "idle" /\ pending = {} /\ IsResult(response))

\* the analysis of the cyclic repository has returned its result after
\* fetching both other files
C3_Witness ==
  world = CycleWorld /\ pc = "idle" /\ IsResult(response) /\ fetchedOk = {2, 3}

(***************************************************************************)
(* C4: for the cycle b -> a, c -> b, a -> c and target a.js the result is  *)
(* b.js at depth 1, c.js at depth 2, a.js at depth 3 and nothing further.  *)
(* The code returns b.js alone: violated.                                  *)
(***************************************************************************)
C4_CycleYieldsThreeLevels ==
  (world = CycleWorld /\ CleanResult) =>
    /\ RecordFiles(response.dependencies) = << "b.js", "c.js", "a.js" >>
    /\ \A k \in 1..Len(response.dependencies) :
         "depth" \in DOMAIN response.dependencies[k] /\ response.dependencies[k].depth = k

(***************************************************************************)
(* C5: the records of a result are in non-decreasing depth order.  The     *)
(* records the code returns carry no depth: violated.                      *)
(***************************************************************************)
C5_DepthAscending ==
  IsResult(response) =>
    \A i, j \in 1..Len(response.dependencies) :
      i < j =>
        /\ "depth" \in DOMAIN response.dependencies[i]
        /\ "depth" \in DOMAIN response.dependencies[j]
        /\ response.dependencies[i].depth <= response.dependencies[j].depth

(***************************************************************************)
(* C6: every record of every result carries a chain from the target to its *)
(* file, linked by imports, and depth = Len(chain) - 1 >= 1.  The code's   *)
(* records are {file, imports}: violated.                                  *)
(***************************************************************************)
C6_RecordsCarryChainAndDepth ==
  IsResult(response) =>
    \A k \in 1..Len(response.dependencies) : HasChainAndDepth(response.dependencies[k])

(***************************************************************************)
(* C7: at most BATCH_SIZE content fetches are in flight, all of them of    *)
(* the current batch; no fetch of a later batch has been issued, and every *)
(* fetch of an earlier batch has settled (succeeded or failed).            *)
(***************************************************************************)
C7_BoundedSequentialBatches ==
  /\ Cardinality(pending) <= BATCH_SIZE
  /\ pending \subseteq (an.i + 1) .. (an.i + BATCH_SIZE)
  /\ \A p \in issued : p <= an.i + BATCH_SIZE
  /\ \A p \in issued : p <= an.i \/ pc = "idle" => p \in fetchedOk \cup failedPos
  /\ pending = issued \ (fetchedOk \cup failedPos)

\* the second batch is in flight after a first batch of BATCH_SIZE fetches,
\* one of which failed
C7_Witness ==
  /\ pc = "fetching"
  /\ an.i = BATCH_SIZE
  /\ pending # {}
  /\ Cardinality(issued \ pending) = BATCH_SIZE
  /\ failedPos # {}

(***************************************************************************)
(* C8: a failed content fetch aborts nothing: every batch is still issued, *)
(* the failing file contributes no record, and the result is exactly the   *)
(* records, in file order, of the files whose fetch succeeded.             *)
(***************************************************************************)
RECURSIVE RecordsOf(_, _)
RecordsOf(p, okPositions) ==
  IF p > Len(an.files) THEN << >>
  ELSE (IF p \in okPositions /\ ImportsFile(an.files[p], Target)
        THEN << [file |-> an.files[p],
                 imports |-> parseImports(world.content[an.files[p]], Target,
                                          BaseNameOf(Target), an.files[p])] >>
        ELSE << >>)
       \o RecordsOf(p + 1, okPositions)

C8_FailuresAreIsolated ==
  /\ (pc = "idle" /\ listingOutcome \in {"ok", "cached"}) => IsResult(response) \/ ~isAnalyzing
  /\ IsResult(response) =>
       /\ issued = {p \in 1..Len(an.files) : an.files[p] # Target}
       /\ issued = fetchedOk \cup failedPos
       /\ response.dependencies = RecordsOf(1, fetchedOk)
       /\ \A k \in 1..Len(response.dependencies) :
            \A p \in failedPos : response.dependencies[k].file # an.files[p]

\* a result returned after an importing file of the first batch failed and
\* an importing file of the second batch was fetched
C8_Witness ==
  /\ IsResult(response)
  /\ 2 \in failedPos
  /\ 7 \in fetchedOk
  /\ 11 \in fetchedOk
  /\ RecordFiles(response.dependencies) = << "f07.js", "f11.js" >>

(***************************************************************************)
(* C9: a request gets exactly one sendResponse; the answer is a result     *)
(* object without error or an error object without dependencies; a failed  *)
(* listing gives the error object and no content fetch is issued.          *)
(***************************************************************************)
C9_OneWellFormedResponse ==
  /\ responses <= 1
  /\ response # NoMsg => responses = 1
  /\ (clicks > 0 /\ ~isAnalyzing) => responses = 1
  /\ isAnalyzing => (request # NoMsg \/ pc # "idle" \/ response # NoMsg)
  /\ (isAnalyzing /\ request = NoMsg /\ pc = "idle") => responses = 1
  /\ response # NoMsg =>
       \/ /\ IsResult(response)
          /\ "filesAnalyzed" \in DOMAIN response
          /\ ~IsError(response)
          /\ listingOutcome \in {"ok", "cached"}
       \/ /\ IsError(response)
          /\ ~IsResult(response)
          /\ response.error = ListingErrorMessage
          /\ listingOutcome \in ListingFailures
  /\ listingOutcome \in ListingFailures =>
       /\ issued = {}
       /\ pc = "idle"
       /\ responses = 1
       /\ response # NoMsg => IsError(response)

\* the tree request failed while a stale listing was cached, and the error
\* object is on its way
C9_Witness ==
  /\ listingOutcome \in ListingFailures
  /\ IsError(response)
  /\ DOMAIN repoCache # {}
  /\ isAnalyzing

(***************************************************************************)
(* C10: as applied when deciding whether an import refers to the target,   *)
(* a specifier of a file inside a directory resolves against that          *)
(* directory: ./x to dir/x, and each leading ../ pops one segment of dir.  *)
(* isTargetImport strips the leading ./ before resolving: violated.        *)
(***************************************************************************)
RECURSIVE LeadingParents(_)
LeadingParents(spec) ==
  IF StartsWith(spec, "../") THEN 1 + LeadingParents(Slice(spec, 3)) ELSE 0

ClaimedResolution(dir, spec) ==
  IF StartsWith(spec, "./") THEN dir \o "/" \o Slice(spec, 2)
  ELSE IF StartsWith(spec, "../")
       THEN LET n == LeadingParents(spec)
                parts == Split(dir, "/")
            IN  Join(SubSeq(parts, 1, Len(parts) - n), "/") \o "/" \o Slice(spec, 3 * n)
       ELSE spec

C10_ResolvesAgainstImporterDir ==
  \A r \in resolutions :
    (r.dir # "" /\ LeadingParents(r.specifier) <= Len(Split(r.dir, "/")))
      => r.resolved = ClaimedResolution(r.dir, r.specifier)

(***************************************************************************)
(* C11: in a Python analysis a file is attributed to the target exactly    *)
(* when one of its imports names a module whose dotted path, with every    *)
(* '.' replaced by '/' and '.py' appended, is the target path.             *)
(* isPythonTargetImport also accepts every module whose last component is  *)
(* the target's base name (other.mod for pkg/mod.py): violated.            *)
(***************************************************************************)
PythonModuleFile(modulePath) == ReplaceAllChar(modulePath, ".", "/") \o ".py"

NamesTargetModule(f) ==
  \E k \in 1..Len(world.content[f]) :
    \E j \in 1..Len(RegexMatches(world.content[f][k])) :
      LET m == RegexMatches(world.content[f][k])[j]
      IN  /\ m.re \in {"pythonFromMatch", "pythonImportMatch"}
          /\ PythonModuleFile(m.module) = Target

C11_PythonAttributedByModulePath ==
  (an.language = "python" /\ CleanResult) =>
    \A f \in Candidates \ {Target} :
      (\E k \in 1..Len(response.dependencies) : response.dependencies[k].file = f)
        <=> NamesTargetModule(f)

(***************************************************************************)
(* C12: on a page whose language is outside {javascript, typescript,       *)
(* python, jsx, tsx} a click is rejected before anything starts: no        *)
(* request is sent, no listing or content fetch is issued, no overlay is   *)
(* created and isAnalyzing stays false; and no request or running analysis *)
(* ever carries a tag outside the set.                                     *)
(***************************************************************************)
ClosedLanguageSet == {"javascript", "typescript", "python", "jsx", "tsx"}

C12_UnsupportedLanguageRejected ==
  /\ PageLanguage \notin ClosedLanguageSet =>
       /\ ~isAnalyzing
       /\ request = NoMsg
       /\ response = NoMsg
       /\ pc = "idle"
       /\ pending = {}
       /\ issued = {}
       /\ listingOutcome = "none"
       /\ repoCache = << >>
       /\ overlay = NoOverlay
       /\ clicks = 0
  /\ request # NoMsg => request.language \in ClosedLanguageSet
  /\ pc # "idle" => an.language \in ClosedLanguageSet

\* the click on the page of tool.mjs has been answered with the alert
C12_Witness ==
  /\ world = MjsWorld
  /\ alerted = UnsupportedAlert("mjs")
  /\ ~isAnalyzing
  /\ request = NoMsg

(***************************************************************************)
(* C13: when no candidate other than the target imports the target, the    *)
(* answer to a request whose listing was obtained is a result, not an      *)
(* error, with an empty dependencies sequence and filesAnalyzed the number *)
(* of candidates, whichever content fetches failed.                        *)
(***************************************************************************)
NoImporter == \A f \in Candidates \ {Target} : ~ImportsFile(f, Target)

LooseNormalize(path) == StripExt(ToLowerCase(ReplaceAllChar(path, "\\", "/")), AllExts)

\* file f has an import or require line whose specifier, loosely
\* normalized, is the path g
ImportsLoosely(f, g) ==
  \E k \in 1..Len(world.content[f]) :
    \E j \in 1..Len(RegexMatches(world.content[f][k])) :
      LET m == RegexMatches(world.content[f][k])[j]
      IN  /\ m.re \in {"importMatch", "requireMatch"}
          /\ LooseNormalize(m.module) = LooseNormalize(g)

C14_LooseMatchBeyondDirectImporters ==
  CleanResult =>
    \A k \in 1..Len(response.dependencies) :
      \A f \in Candidates \ {Target} :
        ImportsLoosely(f, response.dependencies[k].file) =>
          \E n \in 1..Len(response.dependencies) : response.dependencies[n].file = f

(***************************************************************************)
(* C15: nothing is processed twice in one analysis.  No content fetch is   *)
(* issued for a position that has already settled, and, the candidate list *)
(* naming no path twice, no two records of a result have the same file at  *)
(* the same depth (the depth the overlay reads, dep.depth || 0).           *)
(***************************************************************************)
NoDuplicatePath(files) ==
  \A p, q \in 1..Len(files) : files[p] = files[q] => p = q

C15_NoFileTwiceAtOneDepth ==
  /\ pending \cap (fetchedOk \cup failedPos) = {}
  /\ fetchedOk \cap failedPos = {}
  /\ (IsResult(response) /\ NoDuplicatePath(an.files)) =>
       \A i, j \in 1..Len(response.dependencies) :
         (/\ response.dependencies[i].file = response.dependencies[j].file
          /\ DepthOf(response.dependencies[i]) = DepthOf(response.dependencies[j]))
           => i = j

\* the result of the twelve-file repository with all three importers in it
C15_Witness ==
  /\ IsResult(response)
  /\ NoDuplicatePath(an.files)
  /\ Len(an.files) = 12
  /\ Len(response.dependencies) = 3

(***************************************************************************)
(* C16: the shared dependencies array changes only in the step in which    *)
(* the last fetch of a batch settles (or is emptied for a new analysis);   *)
(* while a batch is in flight it holds the records of the earlier batches  *)
(* only; and the result is the records of the files fetched, in the order  *)
(* of the candidate list, whatever the order in which the fetches settled. *)
(***************************************************************************)
PositionOf(f) == CHOOSE p \in 1..Len(an.files) : an.files[p] = f

C16_SharedResultState ==
  /\ pc = "fetching" => an.dependencies = RecordsOf(1, {p \in fetchedOk : p <= an.i})
  /\ IsResult(response) =>
       /\ response.dependencies = RecordsOf(1, fetchedOk)
       /\ \A i, j \in 1..Len(response.dependencies) :
            i < j => PositionOf(response.dependencies[i].file)
                       < PositionOf(response.dependencies[j].file)

C16_SharedResultStep ==
  an.dependencies' # an.dependencies =>
    \/ pc = "fetching" /\ Cardinality(pending) = 1 /\ pending \cap pending' = {}
    \/ an.dependencies' = << >>

\* C16, both parts: what the shared result holds in every state, and the
\* steps that change it
C16_ResultIndependentOfSettlingOrder ==
  [] C16_SharedResultState /\ [][C16_SharedResultStep]_vars

\* in the first batch the fetch of f07.js, an importer, has settled while
\* the fetch of f02.js is in flight, and the shared result is still empty
C16_Witness ==
  /\ pc = "fetching"
  /\ an.i = 0
  /\ 7 \in fetchedOk
  /\ 2 \in pending
  /\ an.dependencies = << >>

(***************************************************************************)
(* C17: the listing cache.  A request whose key has an entry younger than  *)
(* 5 minutes is answered from the entry, with no tree request and the      *)
(* cache untouched; any other request issues the tree request.  A tree     *)
(* request that succeeds stores the listing under its key with the time of *)
(* the answer and leaves every other key's entry as it was; one that fails *)
(* leaves the cache as it was; nothing else changes the cache.  Each       *)
(* entry holds the listing of its own branch.                              *)
(***************************************************************************)
KeyOf(b) == cacheKey([world.repoInfo EXCEPT !.branch = b])

C17_CacheState ==
  /\ DOMAIN repoCache \subseteq {KeyOf(b) : b \in Branches}
  /\ \A b \in Branches :
       KeyOf(b) \in DOMAIN repoCache =>
         /\ repoCache[KeyOf(b)].files = BlobPaths(TreeOf(world.tree, b))
         /\ repoCache[KeyOf(b)].timestamp <= now

C17_RequestStep ==
  (request # NoMsg /\ request' = NoMsg) =>
    LET key == cacheKey(request.repoInfo)
    IN  IF key \in DOMAIN repoCache /\ now - repoCache[key].timestamp < 5 * 60 * 1000
        THEN /\ pc' # "listing"
             /\ listingOutcome' = "cached"
             /\ an'.files = filterFilesByLanguage(repoCache[key].files, request.language)
             /\ repoCache' = repoCache
        ELSE /\ pc' = "listing"
             /\ repoCache' = repoCache

C17_ListingStep ==
  (pc = "listing" /\ pc' # "listing") =>
    LET key == cacheKey(an.repoInfo)
    IN  IF IsError(response')
        THEN repoCache' = repoCache
        ELSE /\ DOMAIN repoCache' = DOMAIN repoCache \cup {key}
             /\ repoCache'[key] =
                  [files |-> BlobPaths(TreeOf(world.tree, an.repoInfo.branch)),
                   timestamp |-> now]
             /\ \A k \in DOMAIN repoCache \ {key} : repoCache'[k] = repoCache[k]

C17_OtherSteps ==
  repoCache' # repoCache => (pc = "listing" /\ ~IsError(response'))

\* C17, all parts: the entries in every state, and the three kinds of step
C17_ListingCache ==
  [] C17_CacheState /\ [][C17_RequestStep /\ C17_ListingStep /\ C17_OtherSteps]_vars

\* the second request finds an entry aged exactly 5 minutes under its key
\* and the tree request is in flight again
C17_Witness ==
  /\ pc = "listing"
  /\ clicks = 2
  /\ cacheKey(an.repoInfo) \in DOMAIN repoCache
  /\ now - repoCache[cacheKey(an.repoInfo)].timestamp = 5 * 60 * 1000

(***************************************************************************)
(* C18: the content script has at most one analysis in flight (a request   *)
(* on its way, the worker busy, or a response on its way), and only while  *)
(* isAnalyzing; while isAnalyzing stays true no message is sent, no click  *)
(* is counted and the overlay is not replaced (it can only be closed); the *)
(* flag is reset only by the callback taking the response; and every       *)
(* started analysis leads to the flag being false again.                   *)
(***************************************************************************)
InFlight ==
  (IF request # NoMsg THEN 1 ELSE 0) + (IF pc # "idle" THEN 1 ELSE 0)
    + (IF response # NoMsg THEN 1 ELSE 0)

C18_OneInFlight ==
  /\ InFlight <= 1
  /\ isAnalyzing <=> InFlight = 1

C18_WhileAnalyzing ==
  /\ (isAnalyzing /\ isAnalyzing') =>
       /\ request' # request => request' = NoMsg
       /\ clicks' = clicks
       /\ overlay' # overlay => overlay' = NoOverlay
  /\ (isAnalyzing /\ ~isAnalyzing') => (response # NoMsg /\ response' = NoMsg)

C18_SingleAnalysisInFlight ==
  /\ [] C18_OneInFlight
  /\ [][C18_WhileAnalyzing]_vars
  /\ (isAnalyzing ~> ~isAnalyzing)

\* a second analysis has been started after the first one was answered with
\* an error
C18_Witness ==
  /\ clicks = 2
  /\ isAnalyzing
  /\ request # NoMsg
  /\ overlay = [kind |-> "loading"]
  /\ DOMAIN repoCache = {}

(***************************************************************************)
(* C19: no content fetch is ever issued for the target file, and no record *)
(* of the shared result or of a response has the target as its file, also  *)
(* when the target is a candidate whose own text imports the target.       *)
(***************************************************************************)
C19_TargetNeverFetchedNorReported ==
  /\ \A p \in issued \cup pending \cup fetchedOk \cup failedPos :
       an.files[p] # an.repoInfo.filePath
  /\ \A k \in 1..Len(an.dependencies) : an.dependencies[k].file # an.repoInfo.filePath
  /\ IsResult(response) =>
       \A k \in 1..Len(response.dependencies) :
         response.dependencies[k].file # response.repoInfo.filePath

\* a result with a record in it, for a target that is a candidate and
\* imports itself, every other candidate fetched
C19_Witness ==
  /\ IsResult(response)
  /\ Target \in Candidates
  /\ ImportsFile(Target, Target)
  /\ Len(response.dependencies) >= 1
  /\ Cardinality(fetchedOk) = Len(an.files) - 1
====
